---- MODULE Spec2Model ----
(***************************************************************************)
(* Model of xchainer/cuda/cuda_device/batch_norm.cc: the cuDNN batch-norm  *)
(* executor CudaBatchNormForwardBackward (Forward, Backward,               *)
(* DoubleBackward), the helpers ComputeKeyAxis and As4dArray, and the      *)
(* scoped descriptor CudnnBNTensor4dDescriptor.                            *)
(*                                                                         *)
(* One behaviour is one executor instance used by one caller.  The build   *)
(* configuration (NDEBUG or not) and the caller's tensors (x's shape and   *)
(* dtype, the axis set, the running-statistics buffers) are fixed for the  *)
(* behaviour; every combination is an initial state.  eps, the layout of   *)
(* the running statistics and the accelerator's status codes are drawn     *)
(* anew at every call.                                                     *)
(***************************************************************************)
EXTENDS Integers, Sequences, FiniteSets, TLC

VARIABLES
    build,            \* "debug" (asserts compiled in) or "release" (NDEBUG)
    x_shape,          \* shape of x, a sequence of dimension sizes
    dtype,            \* x.dtype(), shared by gamma, beta and the running statistics
    axis,             \* the Axes argument: strictly increasing 0-based indices
    running_mean,     \* contents of the caller's running_mean buffer
    running_var,      \* contents of the caller's running_var buffer
    result_mean_,     \* the executor's cached mean
    result_inv_var_,  \* the executor's cached inverse variance
    live_descs,       \* accelerator descriptors created and not yet destroyed
    forward_state,    \* "none", "ok" or "failed": how the latest Forward ended
    last              \* record of the latest call: arguments, outcome, accelerator calls

vars == <<build, x_shape, dtype, axis, running_mean, running_var,
          result_mean_, result_inv_var_, live_descs, forward_state, last>>

---------------------------------------------------------------------------
(* Bounds of the model. *)

\* ranks of x explored by Forward
MaxRank == 5

\* eps ranges over the minimum -/+ EpsSpread
EpsSpread == 1

\* buffer contents are numbers modulo NumVals
NumVals == 8

\* ranks explored for the shape adapter on its own
AdapterMaxRank == 4

\* dimension sizes 0..MaxDim explored for the shape adapter
MaxDim == 2


---------------------------------------------------------------------------
(* Dtypes, precision and sizes. *)

\* CUDNN_BN_MIN_EPSILON is 1e-5; eps is counted in units of 1e-6.
CUDNN_BN_MIN_EPSILON == 10

EpsValues == (CUDNN_BN_MIN_EPSILON - EpsSpread)..(CUDNN_BN_MIN_EPSILON + EpsSpread)

Builds == {"debug", "release"}

\* Float16 is the precision the write-back path is written for
\* ("say, from fp16 to fp32").
Dtypes == {"Float16", "Float32", "Float64"}

ItemSize(dt) == CASE dt = "Float16" -> 2 [] dt = "Float32" -> 4 [] OTHER -> 8

\* Spacing of the representable values of a dtype: a Float64 holds every
\* number of the model, a Float32 every second one, a Float16 every fourth.
Granularity(dt) == 8 \div ItemSize(dt)

\* Array::AsType on the contents: conversion to dt rounds to a representable value.
AsTypeValue(v, dt) == v - (v % Granularity(dt))

RECURSIVE Product(_)
Product(s) == IF s = <<>> THEN 1 ELSE Head(s) * Product(Tail(s))

GetTotalSize(shape) == Product(shape)

\* internal::ReduceShape(shape, axis, keepdims = true)
ReduceShape(shape, ax) ==
    [i \in 1..Len(shape) |-> IF \E j \in 1..Len(ax) : ax[j] = i - 1 THEN 1 ELSE shape[i]]

GetNBytes(shape, dt) == GetTotalSize(shape) * ItemSize(dt)

NullArray == [body |-> "null", shape |-> <<>>, dtype |-> "none"]

EmptyLike(shape, dt) == [body |-> "uninit", shape |-> shape, dtype |-> dt]

---------------------------------------------------------------------------
(* Axis sets and shapes the caller can pass. *)

RECURSIVE SortedSeq(_)
SortedSeq(S) ==
    IF S = {} THEN <<>>
    ELSE LET m == CHOOSE a \in S : \A b \in S : a <= b
         IN <<m>> \o SortedSeq(S \ {m})

AxesOfRank(r) == {SortedSeq(S) : S \in SUBSET (0..(r - 1))}

\* One non-empty x per rank: (2), (2,3), (2,3,2), (2,3,2,2), ...
XShapeOfRank(r) == [i \in 1..r |-> IF i = 2 THEN 3 ELSE 2]

RECURSIVE ShapesOfRank(_)
ShapesOfRank(r) ==
    IF r = 0 THEN {<<>>}
    ELSE {Append(s, d) : s \in ShapesOfRank(r - 1), d \in 0..MaxDim}

---------------------------------------------------------------------------
(* ComputeKeyAxis and As4dArray. *)

RECURSIVE KeyAxisLoop(_, _, _, _)
KeyAxisLoop(idim, x_ndim, ax, key_axis) ==
    IF idim >= x_ndim THEN key_axis
    ELSE KeyAxisLoop(idim + 1, x_ndim, ax,
                     IF \A j \in 1..Len(ax) : ax[j] # idim
                     THEN Append(key_axis, idim) ELSE key_axis)

ComputeKeyAxis(x_ndim, ax) == KeyAxisLoop(0, x_ndim, ax, <<>>)

\* key_axis[0] of an empty Axes reads a slot that was never written: any value.
\* Only its comparisons with 1 and ndim - 1 matter.
KeyAxisFrontValues(key_axis) ==
    IF key_axis # <<>> THEN {key_axis[1]} ELSE 0..MaxRank

\* GetTotalSize() / 0 is undefined: the process traps, or some quotient comes out.
QuotientsOfZeroDivision == {0, 1}

\* The set of outcomes of As4dArray(arr, key_axis), key_axis[0] reading k0.
As4dArray(shape, k0) ==
    LET ndim == Len(shape)
        last_dim_size == shape[ndim]
    IN  IF ndim = 4 /\ k0 = 1 THEN {[kind |-> "same", shape |-> shape]}
        ELSE IF k0 = ndim - 1 THEN
            IF last_dim_size = 0
            THEN {[kind |-> "sigfpe", shape |-> <<>>]}
                 \cup {[kind |-> "reshaped", shape |-> <<q, last_dim_size, 1, 1>>] :
                         q \in QuotientsOfZeroDivision}
            ELSE {[kind |-> "reshaped",
                   shape |-> <<GetTotalSize(shape) \div last_dim_size, last_dim_size, 1, 1>>]}
        ELSE {[kind |-> "DimensionError", shape |-> <<>>]}

---------------------------------------------------------------------------
(* Normalization mode. *)

GetBatchNormModeAnyThree(ax) ==
    IF Len(ax) = 1 /\ ax[1] = 0 THEN "CUDNN_BATCHNORM_PER_ACTIVATION"
    ELSE IF Len(ax) = 3 \/ (Len(ax) = 4 /\ ax[1] = 0 /\ ax[2] = 2 /\ ax[3] = 3 /\ ax[4] = 4)
         THEN "CUDNN_BATCHNORM_SPATIAL"
         ELSE "DimensionError"

GetBatchNormMode(ax) ==
    IF Len(ax) = 1 /\ ax[1] = 0 THEN "CUDNN_BATCHNORM_PER_ACTIVATION"
    ELSE IF \/ (Len(ax) = 3 /\ ax[1] = 0 /\ ax[2] = 2 /\ ax[3] = 3)
            \/ (Len(ax) = 4 /\ ax[1] = 0 /\ ax[2] = 2 /\ ax[3] = 3 /\ ax[4] = 4)
         THEN "CUDNN_BATCHNORM_SPATIAL"
         ELSE "DimensionError"

---------------------------------------------------------------------------
(* Accelerator calls and the scoped descriptors. *)

AccelCall(fn, desc, status) == [fn |-> fn, desc |-> desc, status |-> status]

\* internal::CudnnTensorDescriptor{Array}: create, then set; released on destruction.
CudnnTensorDescriptorCtor(status) ==
    CASE status = "create_fail" ->
            [ok |-> FALSE, at |-> "x_desc_create",
             calls |-> <<AccelCall("cudnnCreateTensorDescriptor", "x", "error")>>]
      [] status = "set_fail" ->
            [ok |-> FALSE, at |-> "x_desc_set",
             calls |-> <<AccelCall("cudnnCreateTensorDescriptor", "x", "ok"),
                         AccelCall("cudnnSetTensor4dDescriptor", "x", "error"),
                         AccelCall("cudnnDestroyTensorDescriptor", "x", "ok")>>]
      [] OTHER ->
            [ok |-> TRUE, at |-> "none",
             calls |-> <<AccelCall("cudnnCreateTensorDescriptor", "x", "ok"),
                         AccelCall("cudnnSetTensor4dDescriptor", "x", "ok")>>]

CudnnTensorDescriptorDtor == <<AccelCall("cudnnDestroyTensorDescriptor", "x", "ok")>>

\* ~CudnnBNTensor4dDescriptor(): destroys desc_ unless it is null.
BNDescriptorDtorNoDestroy(desc_is_null) == <<>>

BNDescriptorDtor(desc_is_null) ==
    IF ~desc_is_null
    THEN <<AccelCall("cudnnDestroyTensorDescriptor", "bn", "ok")>>
    ELSE <<>>

\* What runs when the body of the delegating constructor throws: the private
\* default constructor has completed, so the object is destroyed.
BNCtorUnwindNoDtor(desc_is_null) == <<>>

BNCtorUnwind(desc_is_null) == BNDescriptorDtor(desc_is_null)

\* CudnnBNTensor4dDescriptor(x_desc, mode)
CudnnBNTensor4dDescriptorCtor(status) ==
    CASE status = "create_fail" ->
            [ok |-> FALSE, at |-> "bn_desc_create",
             calls |-> <<AccelCall("cudnnCreateTensorDescriptor", "bn", "error")>>]
      [] status = "derive_fail" ->
            [ok |-> FALSE, at |-> "bn_desc_derive",
             calls |-> <<AccelCall("cudnnCreateTensorDescriptor", "bn", "ok"),
                         AccelCall("cudnnDeriveBNTensorDescriptor", "bn", "error")>>
                       \o BNCtorUnwind(FALSE)]
      [] OTHER ->
            [ok |-> TRUE, at |-> "none",
             calls |-> <<AccelCall("cudnnCreateTensorDescriptor", "bn", "ok"),
                         AccelCall("cudnnDeriveBNTensorDescriptor", "bn", "ok")>>]

\* The cuDNN data type of an array of dtype dt.
GetCudnnDataType(dt) ==
    CASE dt = "Float16" -> "CUDNN_DATA_HALF"
      [] dt = "Float32" -> "CUDNN_DATA_FLOAT"
      [] OTHER -> "CUDNN_DATA_DOUBLE"

\* cudnnDeriveBNTensorDescriptor: double stays double, half and float give float.
DeriveBNDataType(cudnn_dtype) ==
    IF cudnn_dtype = "CUDNN_DATA_DOUBLE" THEN "CUDNN_DATA_DOUBLE" ELSE "CUDNN_DATA_FLOAT"

\* The switch of CudnnBNTensor4dDescriptor::GetDtype.
GetDtype(cudnn_dtype) ==
    CASE cudnn_dtype = "CUDNN_DATA_DOUBLE" -> "Float64"
      [] cudnn_dtype = "CUDNN_DATA_FLOAT" -> "Float32"
      [] OTHER -> "DtypeError"

\* Successful creations minus destructions of descriptor d in a call sequence.
RECURSIVE Count(_, _, _)
Count(calls, fn, d) ==
    IF calls = <<>> THEN 0
    ELSE (IF Head(calls).fn = fn /\ Head(calls).desc = d /\ Head(calls).status = "ok"
          THEN 1 ELSE 0) + Count(Tail(calls), fn, d)

Created(calls, d) == Count(calls, "cudnnCreateTensorDescriptor", d)
Destroyed(calls, d) == Count(calls, "cudnnDestroyTensorDescriptor", d)

Descs == {"x", "bn"}

LiveAfter(live, calls) ==
    {d \in Descs : (IF d \in live THEN 1 ELSE 0) + Created(calls, d) - Destroyed(calls, d) > 0}

---------------------------------------------------------------------------
(* The accelerator primitive and the write-back. *)

\* What the batch contributes to a running statistic (it depends on x only).
BatchStat == 6

\* cudnnBatchNormalizationForwardTraining on one running statistic: the
\* moving average is stored at the precision of the parameter descriptor.
PrimitiveUpdate(v, stat_dtype) == AsTypeValue((v + BatchStat) % NumVals, stat_dtype)

\* if (dtype != gamma_beta_mean_var_dtype)
NeedsWriteBackNever(dt, stat_dtype) == FALSE

NeedsWriteBack(dt, stat_dtype) == dt # stat_dtype

\* Array::AsType(dt, false) returns the array itself when the dtype is already dt.
AsTypeCopies(from_dtype, to_dtype) == from_dtype # to_dtype

\* device.MemoryCopyFrom(dst, src, nbytes, device) on a buffer of dst_nbytes
\* bytes: -1 stands for a buffer only part of which was overwritten.
MemoryCopyFrom(dst, src, nbytes, dst_nbytes) ==
    IF nbytes = dst_nbytes THEN src ELSE IF nbytes = 0 THEN dst ELSE 0 - 1

---------------------------------------------------------------------------
(* Forward. *)

\* if (static_cast<double>(eps) < CUDNN_BN_MIN_EPSILON)
EpsTooSmallOffByOne(eps) == eps < CUDNN_BN_MIN_EPSILON - 1

EpsTooSmall(eps) == eps < CUDNN_BN_MIN_EPSILON

\* The #ifndef NDEBUG block.  The caller's gamma, beta, shapes, devices and
\* dtypes satisfy it; the layout of the running statistics is an argument.
DebugAsserts(mean_contig, var_contig) == mean_contig /\ var_contig

NoCall == [op |-> "none", eps |-> 0, mean_contig |-> TRUE, var_contig |-> TRUE,
           outcome |-> "none", raised_at |-> "none", error_args |-> <<>>,
           accel_calls |-> <<>>, accel_ok |-> TRUE, adapted |-> "none",
           prim_mode |-> "none", stat_dtype |-> "none",
           casted |-> FALSE, prim_target |-> "none", copied |-> <<0, 0>>,
           pre_mean |-> 0, pre_var |-> 0,
           pre_cache |-> <<NullArray, NullArray>>,
           mean |-> 0, var |-> 0, cache |-> <<NullArray, NullArray>>,
           out_shape |-> <<>>, result |-> <<>>]

\* A call as it stands on entry: nothing raised, nothing touched.
Entry(op, eps, mc, vc) ==
    [NoCall EXCEPT !.op = op, !.eps = eps, !.mean_contig = mc, !.var_contig = vc,
                   !.outcome = "ok",
                   !.pre_mean = running_mean, !.pre_var = running_var,
                   !.pre_cache = <<result_mean_, result_inv_var_>>,
                   !.mean = running_mean, !.var = running_var,
                   !.cache = <<result_mean_, result_inv_var_>>]

Throw(c, kind, at, args) ==
    [c EXCEPT !.outcome = kind, !.raised_at = at, !.error_args = args]

\* Lines 153-202: casts, allocation of the cache, the primitive, the write-back.
\* calls holds the accelerator calls made so far; both descriptors are live.
ForwardCompute(c, mode, stat_dtype) ==
    LET casted == AsTypeCopies(dtype, stat_dtype)
        running_mean_casted == AsTypeValue(running_mean, stat_dtype)
        running_var_casted == AsTypeValue(running_var, stat_dtype)
        gamma_shape == ReduceShape(x_shape, axis)
        cache0 == <<EmptyLike(gamma_shape, stat_dtype), EmptyLike(gamma_shape, stat_dtype)>>
        unwind == BNDescriptorDtor(FALSE) \o CudnnTensorDescriptorDtor
        c0 == [c EXCEPT !.stat_dtype = stat_dtype, !.casted = casted,
                        !.prim_mode = mode,
                        !.prim_target = IF casted THEN "temporary" ELSE "caller",
                        !.cache = cache0]
        mean_upd == PrimitiveUpdate(running_mean_casted, stat_dtype)
        var_upd == PrimitiveUpdate(running_var_casted, stat_dtype)
        nbytes == GetNBytes(gamma_shape, dtype)
        filled == <<[cache0[1] EXCEPT !.body = "filled"], [cache0[2] EXCEPT !.body = "filled"]>>
        done == [c0 EXCEPT
                   !.accel_calls = @ \o <<AccelCall("cudnnBatchNormalizationForwardTraining", "none", "ok")>>,
                   !.cache = filled,
                   !.mean = IF casted THEN running_mean ELSE mean_upd,
                   !.var = IF casted THEN running_var ELSE var_upd]
        written == IF NeedsWriteBack(dtype, stat_dtype)
                   THEN [done EXCEPT
                           !.mean = MemoryCopyFrom(done.mean, AsTypeValue(mean_upd, dtype), nbytes, nbytes),
                           !.var = MemoryCopyFrom(done.var, AsTypeValue(var_upd, dtype), nbytes, nbytes),
                           !.copied = <<nbytes, nbytes>>]
                   ELSE done
    IN  \* the primitive succeeds
        {[written EXCEPT !.accel_calls = @ \o unwind, !.out_shape = x_shape]}
        \cup
        \* the primitive fails: buffers it was given may or may not have been written
        {[Throw(c0, "CudnnError", "primitive", <<>>) EXCEPT
             !.accel_ok = FALSE,
             !.accel_calls = @ \o <<AccelCall("cudnnBatchNormalizationForwardTraining", "none", "error")>>
                               \o unwind,
             !.mean = IF casted \/ ~w THEN running_mean ELSE mean_upd,
             !.var = IF casted \/ ~w THEN running_var ELSE var_upd] : w \in BOOLEAN}

\* Lines 150-151: the parameter descriptor and its dtype.
ForwardDescribe(c, mode) ==
    UNION {
      LET bn == CudnnBNTensor4dDescriptorCtor(s)
          c1 == [c EXCEPT !.accel_calls = @ \o bn.calls]
      IN  IF ~bn.ok
          THEN {[Throw(c1, "CudnnError", bn.at, <<>>) EXCEPT
                    !.accel_ok = FALSE,
                    !.accel_calls = @ \o CudnnTensorDescriptorDtor]}
          ELSE
            \* cudnnGetTensor4dDescriptor fails
            {[Throw(c1, "CudnnError", "bn_desc_get", <<>>) EXCEPT
                 !.accel_ok = FALSE,
                 !.accel_calls = @ \o <<AccelCall("cudnnGetTensor4dDescriptor", "bn", "error")>>
                                   \o BNDescriptorDtor(FALSE) \o CudnnTensorDescriptorDtor]}
            \cup
            UNION {
              LET c2 == [c1 EXCEPT !.accel_calls =
                            @ \o <<AccelCall("cudnnGetTensor4dDescriptor", "bn", "ok")>>]
                  stat_dtype == GetDtype(cudnn_dtype)
              IN  IF stat_dtype = "DtypeError"
                  THEN {[Throw(c2, "DtypeError", "GetDtype", <<cudnn_dtype>>) EXCEPT
                            !.accel_calls = @ \o BNDescriptorDtor(FALSE)
                                              \o CudnnTensorDescriptorDtor]}
                  ELSE ForwardCompute(c2, mode, stat_dtype)
              \* the data type the derived descriptor reports: the documented
              \* derivation, or a type GetDtype has no case for
              : cudnn_dtype \in {DeriveBNDataType(GetCudnnDataType(dtype)), "CUDNN_DATA_HALF"} }
      : s \in {"ok", "create_fail", "derive_fail"} }

\* Lines 146-148: the input descriptor of the 4-d view, then the mode.
ForwardAdapt(c) ==
    LET key_axis == ComputeKeyAxis(Len(x_shape), axis) IN
    UNION {
      UNION {
        IF a.kind = "DimensionError"
        THEN {Throw(c, "DimensionError", "As4dArray", <<x_shape, key_axis>>)}
        ELSE IF a.kind = "sigfpe"
        THEN {Throw(c, "crash", "As4dArray", <<>>)}
        ELSE UNION {
               LET xd == CudnnTensorDescriptorCtor(s)
                   c1 == [c EXCEPT !.adapted = a.kind, !.accel_calls = xd.calls]
                   mode == GetBatchNormMode(axis)
               IN  IF ~xd.ok
                   THEN {[Throw(c1, "CudnnError", xd.at, <<>>) EXCEPT !.accel_ok = FALSE]}
                   ELSE IF mode = "DimensionError"
                   THEN {[Throw(c1, "DimensionError", "GetBatchNormMode", <<axis>>) EXCEPT
                             !.accel_calls = @ \o CudnnTensorDescriptorDtor]}
                   ELSE ForwardDescribe(c1, mode)
               : s \in {"ok", "create_fail", "set_fail"} }
        : a \in As4dArray(x_shape, k0) }
      : k0 \in KeyAxisFrontValues(key_axis) }

\* Lines 105-141: the eps check, the debug assertions, the contiguity checks.
ForwardOutcomes(eps, mc, vc) ==
    LET c == Entry("Forward", eps, mc, vc) IN
    IF EpsTooSmall(eps)
    THEN {Throw(c, "CudnnError", "eps_check", <<CUDNN_BN_MIN_EPSILON, eps>>)}
    ELSE IF build = "debug" /\ ~DebugAsserts(mc, vc)
    THEN {Throw(c, "abort", "assert", <<>>)}
    ELSE IF ~mc
    THEN {Throw(c, "DeviceError", "running_mean_contiguity", <<>>)}
    ELSE IF ~vc
    THEN {Throw(c, "DeviceError", "running_var_contiguity", <<>>)}
    ELSE ForwardAdapt(c)

\* The process is gone after a failed assertion or a trap.
Running == last.outcome \notin {"abort", "crash"}

Forward ==
    /\ Running
    /\ \E eps \in EpsValues, mc \in BOOLEAN, vc \in BOOLEAN :
         \E r \in ForwardOutcomes(eps, mc, vc) :
            /\ last' = r
            /\ running_mean' = r.mean
            /\ running_var' = r.var
            /\ result_mean_' = r.cache[1]
            /\ result_inv_var_' = r.cache[2]
            /\ live_descs' = LiveAfter(live_descs, r.accel_calls)
            /\ forward_state' = IF r.outcome = "ok" THEN "ok" ELSE "failed"
    /\ UNCHANGED <<build, x_shape, dtype, axis>>

---------------------------------------------------------------------------
(* Backward and DoubleBackward. *)

\* return {Array{}, Array{}, Array{}};
BackwardResultTwo == <<NullArray, NullArray>>

BackwardResult == <<NullArray, NullArray, NullArray>>

DoubleBackwardResult == <<NullArray, NullArray, NullArray>>

Backward ==
    /\ Running
    /\ \E eps \in EpsValues :
         last' = [Entry("Backward", eps, TRUE, TRUE) EXCEPT !.result = BackwardResult]
    /\ UNCHANGED <<build, x_shape, dtype, axis, running_mean, running_var,
                   result_mean_, result_inv_var_, live_descs, forward_state>>

DoubleBackward ==
    /\ Running
    /\ last' = [Entry("DoubleBackward", 0, TRUE, TRUE) EXCEPT !.result = DoubleBackwardResult]
    /\ UNCHANGED <<build, x_shape, dtype, axis, running_mean, running_var,
                   result_mean_, result_inv_var_, live_descs, forward_state>>

---------------------------------------------------------------------------
(* The executor and its caller. *)

Init ==
    /\ build \in Builds
    /\ dtype \in Dtypes
    /\ \E r \in 1..MaxRank : x_shape = XShapeOfRank(r) /\ axis \in AxesOfRank(r)
    /\ running_mean = 0
    /\ running_var = AsTypeValue(NumVals - 1, dtype)
    /\ result_mean_ = NullArray
    /\ result_inv_var_ = NullArray
    /\ live_descs = {}
    /\ forward_state = "none"
    /\ last = NoCall

Next == Forward \/ Backward \/ DoubleBackward

Spec == Init /\ [][Next]_vars

---------------------------------------------------------------------------
(* The shape adapter on its own: ComputeKeyAxis, then As4dArray, on every *)
(* shape of rank 1..AdapterMaxRank with sizes 0..MaxDim.                  *)

InitAdapter ==
    /\ build = "release"
    /\ dtype = "Float32"
    /\ \E r \in 1..AdapterMaxRank : x_shape \in ShapesOfRank(r) /\ axis \in AxesOfRank(r)
    /\ running_mean = 0
    /\ running_var = 0
    /\ result_mean_ = NullArray
    /\ result_inv_var_ = NullArray
    /\ live_descs = {}
    /\ forward_state = "none"
    /\ last = NoCall

Adapt ==
    /\ last.op = "none"
    /\ LET key_axis == ComputeKeyAxis(Len(x_shape), axis) IN
       \E k0 \in KeyAxisFrontValues(key_axis) :
         \E a \in As4dArray(x_shape, k0) :
           last' = [NoCall EXCEPT !.op = "As4dArray", !.outcome = a.kind,
                                  !.error_args = key_axis, !.out_shape = a.shape]
    /\ UNCHANGED <<build, x_shape, dtype, axis, running_mean, running_var,
                   result_mean_, result_inv_var_, live_descs, forward_state>>

NextAdapter == Adapt

SpecAdapter == InitAdapter /\ [][NextAdapter]_vars

---------------------------------------------------------------------------
(* Vocabulary of the properties. *)

IsForward == last.op = "Forward"

EpsValid == last.eps >= CUDNN_BN_MIN_EPSILON

RunningContiguous == last.mean_contig /\ last.var_contig

\* The axis sets the executor is documented to accept.
RecognizedAxes == {<<0>>, <<0, 2, 3>>, <<0, 2, 3, 4>>}

KeyAxis == ComputeKeyAxis(Len(x_shape), axis)

\* The first key axis is index 1 of a rank-4 x, or x's last dimension.
Adaptable ==
    /\ KeyAxis # <<>>
    /\ \/ Len(x_shape) = 4 /\ KeyAxis[1] = 1
       \/ KeyAxis[1] = Len(x_shape) - 1

ValidationPoints ==
    {"eps_check", "running_mean_contiguity", "running_var_contiguity",
     "As4dArray", "GetBatchNormMode", "GetDtype"}

RejectedByValidation ==
    /\ IsForward
    /\ last.raised_at \in ValidationPoints
    /\ last.outcome \in {"CudnnError", "DeviceError", "DimensionError", "DtypeError"}

RunningStatsUntouched == running_mean = last.pre_mean /\ running_var = last.pre_var

CacheUntouched == <<result_mean_, result_inv_var_>> = last.pre_cache

PrimitiveInvoked ==
    \E i \in 1..Len(last.accel_calls) :
        last.accel_calls[i].fn = "cudnnBatchNormalizationForwardTraining"

XDescCreated == <<AccelCall("cudnnCreateTensorDescriptor", "x", "ok"),
                  AccelCall("cudnnSetTensor4dDescriptor", "x", "ok")>>

XDescDestroyed == <<AccelCall("cudnnDestroyTensorDescriptor", "x", "ok")>>

BNDescQueried == <<AccelCall("cudnnCreateTensorDescriptor", "bn", "ok"),
                   AccelCall("cudnnDeriveBNTensorDescriptor", "bn", "ok"),
                   AccelCall("cudnnGetTensor4dDescriptor", "bn", "ok")>>

BNDescDestroyed == <<AccelCall("cudnnDestroyTensorDescriptor", "bn", "ok")>>

---------------------------------------------------------------------------
(* Properties. *)

\* C1: a Forward whose eps is below CUDNN_BN_MIN_EPSILON throws the
\* configuration error naming the minimum and eps, whatever the build, the
\* layout of the running statistics and the axis set are, and leaves
\* running_mean and running_var as they were.
C1_EpsBelowMinimumRejected ==
    (IsForward /\ ~EpsValid) =>
        /\ last.outcome = "CudnnError"
        /\ last.raised_at = "eps_check"
        /\ last.error_args = <<CUDNN_BN_MIN_EPSILON, last.eps>>
        /\ RunningStatsUntouched

C1_Witness ==
    /\ IsForward /\ ~EpsValid
    /\ build = "debug" /\ ~last.mean_contig
    /\ axis \notin RecognizedAxes
    /\ last.outcome = "CudnnError"

\* C2 (as claimed): a Forward with a valid eps and a non-contiguous
\* running_mean or running_var throws the DeviceError before any
\* accelerator call, in debug builds as in release builds.
C2_LayoutErrorInEveryBuild ==
    (IsForward /\ EpsValid /\ ~RunningContiguous) =>
        /\ last.outcome = "DeviceError"
        /\ last.accel_calls = <<>>

C4_ModeResolutionRejectsAxis ==
    (IsForward /\ EpsValid /\ RunningContiguous /\ last.accel_ok
       /\ axis \notin RecognizedAxes) =>
        /\ last.outcome = "DimensionError"
        /\ last.raised_at = "GetBatchNormMode"
        /\ last.error_args = <<axis>>

\* C4 (amended): such a Forward, on an x that keeps at least one key axis,
\* throws a DimensionError unless the accelerator fails to build the input
\* descriptor: the shape adapter's, naming x's shape and the key axes, when
\* the first key axis is neither index 1 of a rank-4 x nor x's last
\* dimension; otherwise the mode resolution's, naming the axis set.
C4_DimensionErrorFromAdapterOrMode ==
    (IsForward /\ EpsValid /\ RunningContiguous /\ last.accel_ok
       /\ axis \notin RecognizedAxes /\ KeyAxis # <<>>) =>
        /\ last.outcome = "DimensionError"
        /\ Adaptable =>
              last.raised_at = "GetBatchNormMode" /\ last.error_args = <<axis>>
        /\ ~Adaptable =>
              last.raised_at = "As4dArray" /\ last.error_args = <<x_shape, KeyAxis>>

C4_Witness ==
    /\ IsForward /\ EpsValid /\ RunningContiguous
    /\ Len(x_shape) = 4 /\ axis = <<1>>
    /\ last.outcome = "DimensionError"
    /\ last.raised_at = "As4dArray"

\* C5 (as claimed): with a valid eps, contiguous running statistics, a
\* supported precision and a working accelerator, Forward with axis (0)
\* invokes the primitive in per-activation mode, and Forward with axis
\* (0,2,3) on a rank-4 x or (0,2,3,4) on a rank-5 x invokes it in spatial
\* mode, never raising a DimensionError.
C5_RecognizedAxesReachPrimitive ==
    (IsForward /\ EpsValid /\ RunningContiguous /\ last.accel_ok
       /\ last.outcome # "DtypeError") =>
        /\ (axis = <<0>> /\ Len(x_shape) >= 2) =>
              /\ last.outcome = "ok"
              /\ last.prim_mode = "CUDNN_BATCHNORM_PER_ACTIVATION"
        /\ ((axis = <<0, 2, 3>> /\ Len(x_shape) = 4)
              \/ (axis = <<0, 2, 3, 4>> /\ Len(x_shape) = 5)) =>
              /\ last.outcome = "ok"
              /\ last.prim_mode = "CUDNN_BATCHNORM_SPATIAL"

\* C6 (as claimed): for a tensor of any rank and any sizes, 0 included, whose
\* first key axis is its last dimension, As4dArray returns a rank-4 shape
\* (total / last, last, 1, 1) with the input's element count; for a rank-4
\* tensor whose first key axis is 1 it returns the tensor unchanged.
C6_AdapterShape ==
    (last.op = "As4dArray" /\ KeyAxis # <<>>) =>
        LET ndim == Len(x_shape)
            last_dim_size == x_shape[ndim]
            total == GetTotalSize(x_shape)
            out == last.out_shape
        IN  /\ (KeyAxis[1] = ndim - 1) =>
                  /\ last.outcome = "reshaped"
                  /\ Len(out) = 4
                  /\ out[1] * last_dim_size = total
                  /\ out[2] = last_dim_size /\ out[3] = 1 /\ out[4] = 1
                  /\ GetTotalSize(out) = total
            /\ (ndim = 4 /\ KeyAxis[1] = 1) =>
                  last.outcome = "same" /\ out = x_shape

\* C7: Backward and DoubleBackward return three arrays and raise nothing,
\* before any Forward, after a successful one and after a failed one.
C7_BackwardReturnsThree ==
    (last.op \in {"Backward", "DoubleBackward"}) =>
        /\ last.outcome = "ok"
        /\ Len(last.result) = 3

C7_Witness ==
    /\ last.op = "Backward"
    /\ forward_state = "failed"
    /\ Len(last.result) = 3

\* C8 (as claimed): a Forward rejected by validation has made no accelerator
\* call at all, descriptor calls included, and has mutated neither
\* accelerator state nor the running statistics.
C8_NoAcceleratorCallBeforeRejection ==
    RejectedByValidation =>
        /\ last.accel_calls = <<>>
        /\ RunningStatsUntouched
        /\ live_descs = {}

\* C8 (amended): a Forward rejected by validation has not invoked the
\* primitive.  The configuration, layout and shape-adapter errors come
\* before any accelerator call; the mode-resolution error comes after the
\* input descriptor was created and set; the unsupported-precision error
\* after the parameter descriptor was also created, derived and queried.
\* Every descriptor so created is destroyed on the way out, and
\* running_mean, running_var and the cache are as they were.
C8_NoPrimitiveBeforeRejection ==
    RejectedByValidation =>
        /\ ~PrimitiveInvoked
        /\ (last.raised_at \notin {"GetBatchNormMode", "GetDtype"}) =>
              last.accel_calls = <<>>
        /\ (last.raised_at = "GetBatchNormMode") =>
              last.accel_calls = XDescCreated \o XDescDestroyed
        /\ (last.raised_at = "GetDtype") =>
              last.accel_calls = XDescCreated \o BNDescQueried
                                   \o BNDescDestroyed \o XDescDestroyed
        /\ RunningStatsUntouched
        /\ CacheUntouched
        /\ live_descs = {}

C8_Witness ==
    /\ RejectedByValidation
    /\ last.raised_at = "GetDtype"
    /\ Len(last.accel_calls) = 7
    /\ forward_state = "failed"

\* C9 (as claimed): the cache is null or holds tensors filled by a
\* successful Forward, and a Forward that fails with a validation or an
\* accelerator error leaves it as it was.
C9_CacheWrittenOnlyOnSuccess ==
    /\ result_mean_.body \in {"null", "filled"}
    /\ result_inv_var_.body \in {"null", "filled"}
    /\ (IsForward /\ last.outcome \in {"CudnnError", "DeviceError", "DimensionError", "DtypeError"})
          => CacheUntouched

\* C10: every descriptor a Forward creates is destroyed exactly once before
\* Forward exits, whichever way it exits; no descriptor is live between calls.
C10_DescriptorsReleased ==
    /\ live_descs = {}
    /\ \A d \in Descs :
          /\ Created(last.accel_calls, d) <= 1
          /\ Destroyed(last.accel_calls, d) = Created(last.accel_calls, d)

C10_Witness ==
    /\ IsForward
    /\ last.raised_at = "bn_desc_derive"
    /\ Created(last.accel_calls, "bn") = 1
    /\ Destroyed(last.accel_calls, "bn") = 1
    /\ Destroyed(last.accel_calls, "x") = 1

====
